---- MODULE Spec2Model ----
(***************************************************************************)
(* Model of the portmidi binding: the message codec and the old stream API *)
(* of src/src/lib.rs, and the device registry (struct PortMidi) of         *)
(* src/src/context.rs, together with the native engine they call into.    *)
(***************************************************************************)
EXTENDS Integers, Sequences, FiniteSets, TLC

VARIABLES
    codec,          \* codec harness: a message, its packed word, the decoded message
    pm_initialized, \* engine: a driver session is active (Pm_Initialize .. Pm_Terminate)
    pm_descriptors, \* engine: the device table, id i is entry i+1
    streams,        \* engine: state of every stream handle ever allocated
    ctx,            \* the PortMidi registry instance of context.rs
    ports,          \* the PmInputPort / PmOutputPort objects of lib.rs
    terminateCalls, \* number of Pm_Terminate calls issued so far
    threads,        \* the threads that share the registry, its lock, its teardown
    last            \* the last operation: its name, its result, the native calls it made

vars == <<codec, pm_initialized, pm_descriptors, streams, ctx, ports,
          terminateCalls, threads, last>>

(***************************************************************************)
(* Bounds of the model.                                                    *)
(***************************************************************************)
MaxVirt == 2        \* create_virtual_output calls that reach the engine per session
MaxPorts == 1       \* port objects constructed
MaxTerminate == 1   \* Pm_Terminate calls observed
MaxThreads == 2     \* threads that call create_virtual_output on one registry

(***************************************************************************)
(* Fixed-width integer helpers.  i8 and i32 values are kept as the signed  *)
(* integers they denote.                                                   *)
(***************************************************************************)
I8 == -128 .. 127

\* `x as i8` for an i32 x: keep the low 8 bits, read them as two's complement.
AsI8(x) == ((x + 128) % 256) - 128

\* `x as i32` for an i8 x: sign extension keeps the denoted value.
AsI32(x) == x

RECURSIVE Pow2(_)
Pow2(k) == IF k = 0 THEN 1 ELSE 2 * Pow2(k - 1)

\* x << k on i32; for |x| <= 128 and k <= 16 the product cannot leave i32.
Shl(x, k) == x * Pow2(k)

\* x >> k on i32: arithmetic shift, i.e. floor division.
Shr(x, k) == x \div Pow2(k)

\* Bitwise and / or on two's complement integers (-1 is all ones).
RECURSIVE BitAnd(_, _)
BitAnd(a, b) ==
    IF a = 0 \/ b = 0 THEN 0
    ELSE IF a = -1 THEN b
    ELSE IF b = -1 THEN a
    ELSE 2 * BitAnd(a \div 2, b \div 2) + ((a % 2) * (b % 2))

RECURSIVE BitOr(_, _)
BitOr(a, b) ==
    IF a = 0 THEN b
    ELSE IF b = 0 THEN a
    ELSE IF a = -1 \/ b = -1 THEN -1
    ELSE 2 * BitOr(a \div 2, b \div 2)
         + (IF (a % 2) = 1 \/ (b % 2) = 1 THEN 1 ELSE 0)

(***************************************************************************)
(* Message codec (lib.rs, impl PmMessage).                                 *)
(***************************************************************************)
\* A decoder with a copy-paste slip: data2 is taken from bits [8:16) as well.
PmMessage_wrap_sameshift(cmessage) ==
    [status |-> AsI8(BitAnd(cmessage, 255)),
     data1  |-> AsI8(BitAnd(Shr(cmessage, 8), 255)),
     data2  |-> AsI8(BitAnd(Shr(cmessage, 8), 255))]

\* A decoder with 7-bit masks: the high bit of every byte is dropped.
PmMessage_wrap_sevenbit(cmessage) ==
    [status |-> AsI8(BitAnd(cmessage, 127)),
     data1  |-> AsI8(BitAnd(Shr(cmessage, 8), 127)),
     data2  |-> AsI8(BitAnd(Shr(cmessage, 16), 127))]

\* PmMessage::wrap: decode a packed word into {status, data1, data2 : i8}.
PmMessage_wrap(cmessage) ==
    [status |-> AsI8(BitAnd(cmessage, 255)),
     data1  |-> AsI8(BitAnd(Shr(cmessage, 8), 255)),
     data2  |-> AsI8(BitAnd(Shr(cmessage, 16), 255))]

\* A codec that forgets the field masks: sign extension of a negative i8
\* spills into the higher bytes.
PmMessage_unwrap_nomask(m) ==
    BitOr(BitOr(Shl(AsI32(m.data2), 16), Shl(AsI32(m.data1), 8)),
          AsI32(m.status))

\* PmMessage::unwrap: encode a message into the packed i32 word.
PmMessage_unwrap(m) ==
    BitOr(BitOr(BitAnd(Shl(AsI32(m.data2), 16), 16711680),
                BitAnd(Shl(AsI32(m.data1), 8), 65280)),
          BitAnd(AsI32(m.status), 255))

\* The unsigned byte an i8 field stands for (0x90 is stored as -112).
ByteOf(x) == x % 256

\* Byte k (0 = lowest) of a packed word.
WordByte(w, k) == Shr(w, 8 * k) % 256

(***************************************************************************)
(* Codec harness: a message is drawn, packed by PmMessage::unwrap and the  *)
(* packed word is unpacked again by PmMessage::wrap; or a word is drawn,   *)
(* unpacked by PmMessage::wrap and the message is packed again.            *)
(***************************************************************************)
FieldSamples == {-128, -112, -1, 0, 60, 100, 127}

\* Every i8 value occurs in every field; the other two fields take samples.
CodecMessages ==
    [status : I8, data1 : FieldSamples, data2 : FieldSamples]
    \cup [status : FieldSamples, data1 : I8, data2 : FieldSamples]
    \cup [status : FieldSamples, data1 : FieldSamples, data2 : I8]

ZeroMessage == [status |-> 0, data1 |-> 0, data2 |-> 0]

\* An i32 word of four bytes, b3 the signed high byte.
Word(b3, b2, b1, b0) == ((b3 * 256 + b2) * 256 + b1) * 256 + b0

ByteSamples == {0, 144}
HighSamples == {-128, -1, 0, 127}

\* Every value of each byte occurs, the other three bytes take samples; the
\* least and the greatest i32 are among them.
CodecWords ==
    {Word(b3, b2, b1, b0) : b3 \in HighSamples, b2 \in ByteSamples,
                            b1 \in ByteSamples, b0 \in 0 .. 255}
    \cup {Word(b3, b2, b1, b0) : b3 \in HighSamples, b2 \in ByteSamples,
                                 b1 \in 0 .. 255, b0 \in ByteSamples}
    \cup {Word(b3, b2, b1, b0) : b3 \in HighSamples, b2 \in 0 .. 255,
                                 b1 \in ByteSamples, b0 \in ByteSamples}
    \cup {Word(b3, b2, b1, b0) : b3 \in -128 .. 127, b2 \in ByteSamples,
                                 b1 \in ByteSamples, b0 \in ByteSamples}

CodecIdle ==
    [phase |-> "idle", m |-> ZeroMessage, w |-> 0, out |-> ZeroMessage,
     re |-> 0]

CodecEncode ==
    /\ codec.phase = "msg"
    /\ codec' = [codec EXCEPT !.phase = "packed", !.w = PmMessage_unwrap(codec.m)]

CodecDecode ==
    /\ codec.phase = "packed"
    /\ codec' = [codec EXCEPT !.phase = "unpacked", !.out = PmMessage_wrap(codec.w)]

CodecWordDecode ==
    /\ codec.phase = "word"
    /\ codec' = [codec EXCEPT !.phase = "decoded", !.out = PmMessage_wrap(codec.w)]

CodecWordEncode ==
    /\ codec.phase = "decoded"
    /\ codec' = [codec EXCEPT !.phase = "reencoded",
                              !.re = PmMessage_unwrap(codec.out)]

(***************************************************************************)
(* Error taxonomy (lib.rs, enum ffi::PmError and impl PmError).            *)
(***************************************************************************)
PmErrorCode ==
    [PmNoError |-> 0, PmGotData |-> 1, PmHostError |-> -10000,
     PmInvalidDeviceId |-> -9999, PmInsufficientMemory |-> -9998,
     PmBufferTooSmall |-> -9997, PmBufferOverflow |-> -9996,
     PmBadPtr |-> -9995, PmBadData |-> -9994, PmInternalError |-> -9993,
     PmBufferMaxSize |-> -9992]

PmErrorNames == DOMAIN PmErrorCode

PmErrorCodes == {PmErrorCode[n] : n \in PmErrorNames}

\* The error kind whose native code is raw (raw is one of PmErrorCodes).
PmErrorOf(raw) == CHOOSE n \in PmErrorNames : PmErrorCode[n] = raw

\* PmError::unwrap: FromPrimitive::from_i64(error).unwrap(); a status outside
\* the enumeration makes from_i64 return None and unwrap panic.
PmError_unwrap(raw) ==
    IF raw \in PmErrorCodes THEN PmErrorOf(raw) ELSE "Panic"

PM_NO_DEVICE == -1

(***************************************************************************)
(* Results of the registry's operations (types::Result, types::Error).     *)
(* An Error::PortMidi(e) is written as the name of e.                      *)
(***************************************************************************)
NoInfo == [id |-> -1, input |-> 0, output |-> 0]

NoEvent == [message |-> ZeroMessage, timestamp |-> 0]

Ret(tag, err, info, event, value) ==
    [tag |-> tag, err |-> err, info |-> info, event |-> event, value |-> value,
     list |-> <<>>]

Ok(info) == Ret("Ok", "", info, NoEvent, 0)
Err(e) == Ret("Err", e, NoInfo, NoEvent, 0)
Panic == Ret("Panic", "", NoInfo, NoEvent, 0)
OkUnit == Ok(NoInfo)
OkEvent(ev) == Ret("Ok", "", NoInfo, ev, 0)
IntValue(v) == Ret("Int", "", NoInfo, NoEvent, v)
NoRet == Ret("None", "", NoInfo, NoEvent, 0)
OkId(id) == Ret("Ok", "", NoInfo, NoEvent, id)
OkList(infos) == [Ok(NoInfo) EXCEPT !.list = infos]

\* The value of an old-API function that returns a bare PmError.
Status(raw) ==
    IF PmError_unwrap(raw) = "Panic" THEN Panic
    ELSE Ret("Status", PmError_unwrap(raw), NoInfo, NoEvent, 0)

\* Result::from(ffi::PmError): the two success codes are Ok(()), every other
\* kind is Err(Error::PortMidi(kind)).
ResultFrom(raw) ==
    IF PmError_unwrap(raw) \in {"PmNoError", "PmGotData"}
    THEN OkUnit
    ELSE Err(PmError_unwrap(raw))

\* ffi::PmError::try_from(c_int): a value that is a code of the taxonomy is
\* that error kind, any other value is a device id.
PmError_try_from(raw) ==
    IF raw \in PmErrorCodes
    THEN [tag |-> "Err", err |-> PmErrorOf(raw), id |-> -1]
    ELSE [tag |-> "Ok", err |-> "", id |-> raw]

(***************************************************************************)
(* Device descriptors.                                                     *)
(***************************************************************************)
MaxPhys == 2        \* physical devices the engine finds

InDev  == [input |-> 1, output |-> 0, is_virtual |-> FALSE]
OutDev == [input |-> 0, output |-> 1, is_virtual |-> FALSE]
Duplex == [input |-> 1, output |-> 1, is_virtual |-> FALSE]
VirtOut == [input |-> 0, output |-> 1, is_virtual |-> TRUE]

DeviceTables ==
    UNION {[1 .. n -> {InDev, OutDev, Duplex}] : n \in 0 .. MaxPhys}

\* A guard that tests the wrong flag.
is_input_wrongflag(device) == device.output > 0

\* PmDeviceInfo::is_input / is_output.
is_input(device) == device.input > 0

\* An is_output that reads the input flag.
is_output_wrongflag(device) == device.input > 0

is_output(device) == device.output > 0

\* get_device_info: Pm_GetDeviceInfo(id) is NULL when id is out of range of
\* the engine's table descs, otherwise the descriptor is copied
\* (PmDeviceInfo::wrap).
get_device_info(descs, id) ==
    IF id >= 0 /\ id < Len(descs)
    THEN [tag |-> "Some",
          info |-> [id |-> id, input |-> descs[id + 1].input,
                    output |-> descs[id + 1].output]]
    ELSE [tag |-> "None", info |-> NoInfo]

\* DeviceInfo::new(id): the descriptor of id, or the native invalid-id error.
DeviceInfo_new(descs, id) ==
    IF get_device_info(descs, id).tag = "Some"
    THEN Ok(get_device_info(descs, id).info)
    ELSE Err("PmInvalidDeviceId")

\* The descriptors a caller can hold: snapshots of the current device table.
KnownDevices ==
    {get_device_info(pm_descriptors, id).info : id \in 0 .. Len(pm_descriptors) - 1}

(***************************************************************************)
(* Native calls as the engine sees them.                                   *)
(***************************************************************************)
\* fn: the native function; arg: its device id, stream handle or (for
\* Pm_Terminate) the number of streams open when it ran; res: the raw value
\* returned; hstate: what the passed stream handle was ("none" without one).
Native(fn, arg, res, hstate) ==
    [fn |-> fn, arg |-> arg, res |-> res, hstate |-> hstate,
     word |-> 0, timestamp |-> 0, length |-> 0]

\* A native write: the packed word and the timestamp handed to the engine.
NativeWrite(fn, arg, res, hstate, word, timestamp) ==
    [fn |-> fn, arg |-> arg, res |-> res, hstate |-> hstate,
     word |-> word, timestamp |-> timestamp, length |-> 0]

\* A native call on a buffer of events: Pm_Read and Pm_Write take the
\* number of events of the buffer.
NativeBuffer(fn, arg, res, hstate, word, timestamp, length) ==
    [NativeWrite(fn, arg, res, hstate, word, timestamp)
        EXCEPT !.length = length]

Last(op, port, arg, ret, native) ==
    [op |-> op, port |-> port, arg |-> arg, ret |-> ret, native |-> native]

OpenStreams == {h \in 1 .. Len(streams) : streams[h] = "open"}

\* Pm_Terminate ends the session and releases every stream still open; a
\* stream is "open", "closed" (released by Pm_Close) or "terminated".
ReleaseAll ==
    [h \in 1 .. Len(streams) |->
        IF streams[h] = "open" THEN "terminated" ELSE streams[h]]

(***************************************************************************)
(* The device registry (context.rs, struct PortMidi).                      *)
(***************************************************************************)
\* The callers of one registry.  pc, id, snap: where thread t is in
\* create_virtual_output, the id it got, the Vec as it read it under the lock.
\* lock: the holder of the Mutex of virtual_devs (0: free, "drop": the
\* teardown).  drop, next: where the teardown is, the entry it deletes next.
NoThreads ==
    [pc |-> [t \in 1 .. MaxThreads |-> "idle"],
     id |-> [t \in 1 .. MaxThreads |-> -1],
     snap |-> [t \in 1 .. MaxThreads |-> <<>>],
     lock |-> 0, drop |-> "none", next |-> 0, terminated |-> FALSE]

NoCtx == [state |-> "none", device_count |-> 0, virtual_devs |-> <<>>,
          created |-> 0]

\* Outcomes of the engine's calls.
InitOutcomes == {0, -9998}
TerminateOutcomes == {0, -10000}
CreateOutcomes ==
    (IF pm_initialized THEN {Len(pm_descriptors)} ELSE {})
    \cup {-10000, -9999, -9998}
DeleteOutcomes ==
    IF pm_initialized THEN {0, -10000} ELSE {-9999}

\* PortMidi::new
\* A test that takes every count, a negative one included.
count_is_valid_any(count) == TRUE

\* The test of new() on the engine's count.
count_is_valid(count) == count >= 0

PortMidi_new ==
    /\ ctx.state = "none"
    /\ \E init \in InitOutcomes, count \in {Len(pm_descriptors), -1} :
         IF ResultFrom(init).tag = "Err"
         THEN /\ last' = Last("new", 0, NoInfo, ResultFrom(init),
                              <<Native("Pm_Initialize", 0, init, "none")>>)
              /\ UNCHANGED <<ctx, pm_initialized>>
         ELSE /\ pm_initialized' = TRUE
              /\ IF count_is_valid(count)
                 THEN /\ ctx' = [state |-> "live", device_count |-> count,
                                 virtual_devs |-> <<>>, created |-> 0]
                      /\ last' = Last("new", 0, NoInfo, OkUnit,
                                      <<Native("Pm_Initialize", 0, init, "none"),
                                        Native("Pm_CountDevices", 0, count, "none")>>)
                 ELSE /\ ctx' = ctx
                      /\ last' = Last("new", 0, NoInfo, Err("Invalid"),
                                      <<Native("Pm_Initialize", 0, init, "none"),
                                        Native("Pm_CountDevices", 0, count, "none")>>)
    /\ UNCHANGED <<threads, codec, pm_descriptors, streams, ports,
                   terminateCalls>>

\* A push that writes over the last entry.
Vec_push_overwrite(v, x) ==
    IF v = <<>> THEN <<x>> ELSE [v EXCEPT ![Len(v)] = x]

\* Vec::push.
Vec_push(v, x) == Append(v, x)

\* A match without the arm for PmInvalidDeviceId: it falls through to the
\* arm that returns the error.
create_match_noarm(res) ==
    IF res.tag = "Err" /\ res.err = "PmNoError" THEN "None"
    ELSE IF res.tag = "Err" THEN "Err"
    ELSE "Some"

\* The match on try_from's result in create_virtual_output: None for
\* PmNoError, a panic for PmInvalidDeviceId, an early return of any other
\* error, Some(id) for an id.
create_match(res) ==
    IF res.tag = "Err" /\ res.err = "PmNoError" THEN "None"
    ELSE IF res.tag = "Err" /\ res.err = "PmInvalidDeviceId" THEN "Panic"
    ELSE IF res.tag = "Err" THEN "Err"
    ELSE "Some"

\* PortMidi::create_virtual_output.  nul: the name has an interior NUL byte,
\* so CString::new(name).unwrap() panics before the engine is called.
create_virtual_output ==
    /\ ctx.state = "live"
    /\ Len(pm_descriptors) < MaxPhys + MaxVirt
    /\ \E nul \in BOOLEAN, raw \in CreateOutcomes :
         LET call == <<Native("Pm_CreateVirtualOutput", 0, raw, "none")>>
             res == PmError_try_from(raw)
             descs == IF raw >= 0 THEN Append(pm_descriptors, VirtOut)
                      ELSE pm_descriptors
         IN  IF nul
             THEN /\ last' = Last("create_virtual_output", 0, NoInfo, Panic, <<>>)
                  /\ UNCHANGED <<ctx, pm_descriptors>>
             ELSE /\ pm_descriptors' = descs
                  /\ IF create_match(res) = "None"
                     THEN \* id.unwrap() panics
                          /\ last' = Last("create_virtual_output", 0, NoInfo, Panic, call)
                          /\ ctx' = ctx
                     ELSE IF create_match(res) = "Panic"
                     THEN /\ last' = Last("create_virtual_output", 0, NoInfo, Panic, call)
                          /\ ctx' = ctx
                     ELSE IF create_match(res) = "Err"
                     THEN /\ last' = Last("create_virtual_output", 0, NoInfo,
                                          Err(res.err), call)
                          /\ ctx' = ctx
                     ELSE LET info == DeviceInfo_new(descs, res.id)
                          IN /\ ctx' = [ctx EXCEPT
                                          !.virtual_devs = Vec_push(@, res.id),
                                          !.created = IF info.tag = "Ok"
                                                      THEN @ + 1 ELSE @]
                             /\ last' = Last("create_virtual_output", 0, NoInfo, info,
                                             call \o <<Native("Pm_GetDeviceInfo",
                                                              res.id, 0, "none")>>)
    /\ UNCHANGED <<threads, codec, pm_initialized, streams, ports,
                   terminateCalls>>

\* Index of the first delete whose status Result::from turns into an error;
\* 0 when every delete succeeds.
FirstFailure(res) ==
    IF \E i \in DOMAIN res : ResultFrom(res[i]).tag = "Err"
    THEN CHOOSE i \in DOMAIN res :
            /\ ResultFrom(res[i]).tag = "Err"
            /\ \A j \in 1 .. i - 1 : ResultFrom(res[j]).tag = "Ok"
    ELSE 0

\* The delete calls of the loop in drop: map_err(..).unwrap() panics at the
\* first failed delete, so the loop ends there.
DeleteCalls(devs, res) ==
    [i \in 1 .. (IF FirstFailure(res) = 0 THEN Len(devs) ELSE FirstFailure(res)) |->
        Native("Pm_DeleteVirtualDevice", devs[i], res[i], "none")]

\* Drop for PortMidi
Drop ==
    /\ ctx.state = "live"
    /\ \E res \in [1 .. Len(ctx.virtual_devs) -> DeleteOutcomes],
          term \in TerminateOutcomes :
         LET deletes == DeleteCalls(ctx.virtual_devs, res)
         IN  IF FirstFailure(res) # 0
             THEN /\ last' = Last("drop", 0, NoInfo, Panic, deletes)
                  /\ UNCHANGED <<pm_initialized, streams, terminateCalls>>
             ELSE /\ last' = Last("drop", 0, NoInfo,
                                  IF ResultFrom(term).tag = "Err" THEN Panic
                                  ELSE OkUnit,
                                  deletes \o <<Native("Pm_Terminate",
                                       Cardinality(OpenStreams), term, "none")>>)
                  /\ pm_initialized' = FALSE
                  /\ streams' = ReleaseAll
                  /\ terminateCalls' = terminateCalls + 1
    /\ ctx' = [ctx EXCEPT !.state = "dropped"]
    /\ UNCHANGED <<threads, codec, pm_descriptors, ports>>

\* A getter that counts the engine's devices as they are now, the virtual
\* devices of this session included.
device_count_live(c) == c.device_count + Len(c.virtual_devs)

\* The value of PortMidi::device_count(): the field set by new().
device_count_of(c) == c.device_count

\* What the engine answers for a default device: the sentinel or an id of
\* its table.  The binding takes the answer as it is, so the model does not
\* rely on the engine to answer a device of the asked direction.
DefaultOutcomes(kind) ==
    {PM_NO_DEVICE} \cup (0 .. Len(pm_descriptors) - 1)

\* A match that takes every id that is not positive for the sentinel.
default_device_id_nonpositive(raw) ==
    IF raw <= 0 THEN Err("NoDefaultDevice") ELSE OkId(raw)

\* The match of default_input_device_id / default_output_device_id.
default_device_id(raw) ==
    IF raw = PM_NO_DEVICE THEN Err("NoDefaultDevice") ELSE OkId(raw)

\* PortMidi::default_input_device_id.
default_input_device_id ==
    /\ ctx.state = "live"
    /\ \E raw \in DefaultOutcomes("input") :
         last' = Last("default_input_device_id", 0, NoInfo,
                      default_device_id(raw),
                      <<Native("Pm_GetDefaultInputDeviceID", 0, raw, "none")>>)
    /\ UNCHANGED <<threads, codec, pm_initialized, pm_descriptors, streams,
                   ctx, ports,
                   terminateCalls>>

\* PortMidi::default_output_device_id.
default_output_device_id ==
    /\ ctx.state = "live"
    /\ \E raw \in DefaultOutcomes("output") :
         last' = Last("default_output_device_id", 0, NoInfo,
                      default_device_id(raw),
                      <<Native("Pm_GetDefaultOutputDeviceID", 0, raw, "none")>>)
    /\ UNCHANGED <<threads, codec, pm_initialized, pm_descriptors, streams,
                   ctx, ports,
                   terminateCalls>>

\* PortMidi::device(id) = DeviceInfo::new(id).  nulls: the ids for which the
\* engine's lookup answers NULL at this call.
PortMidi_device(descs, nulls, id) ==
    IF id \in nulls THEN Err("PmInvalidDeviceId") ELSE DeviceInfo_new(descs, id)

\* A loop that drops a failing lookup and goes on with the next id.
RECURSIVE devices_loop_skip(_, _, _, _, _, _)
devices_loop_skip(descs, nulls, id, count, acc, calls) ==
    IF id >= count
    THEN [ret |-> OkList(acc), native |-> calls]
    ELSE LET res == PortMidi_device(descs, nulls, id)
             call == Native("Pm_GetDeviceInfo", id,
                            IF res.tag = "Ok" THEN 1 ELSE 0, "none")
         IN  devices_loop_skip(descs, nulls, id + 1, count,
                               IF res.tag = "Ok" THEN Append(acc, res.info)
                               ELSE acc,
                               Append(calls, call))

\* The loop of PortMidi::devices over the lazily mapped range id .. count-1:
\* a descriptor is pushed, the first error is returned at once.
RECURSIVE devices_loop(_, _, _, _, _, _)
devices_loop(descs, nulls, id, count, acc, calls) ==
    IF id >= count
    THEN [ret |-> OkList(acc), native |-> calls]
    ELSE LET res == PortMidi_device(descs, nulls, id)
             call == Native("Pm_GetDeviceInfo", id,
                            IF res.tag = "Ok" THEN 1 ELSE 0, "none")
         IN  IF res.tag = "Ok"
             THEN devices_loop(descs, nulls, id + 1, count,
                               Append(acc, res.info), Append(calls, call))
             ELSE [ret |-> res, native |-> Append(calls, call)]

\* PortMidi::devices.
devices ==
    /\ ctx.state = "live"
    /\ \E nulls \in SUBSET (0 .. device_count_of(ctx) - 1) :
         LET r == devices_loop(pm_descriptors, nulls, 0, device_count_of(ctx),
                               <<>>, <<>>)
         IN  last' = Last("devices", 0, NoInfo, r.ret, r.native)
    /\ UNCHANGED <<threads, codec, pm_initialized, pm_descriptors, streams,
                   ctx, ports,
                   terminateCalls>>

\* PortMidi::virtual_device_count: the length of the Vec, read under the lock.
virtual_device_count ==
    /\ ctx.state = "live"
    /\ last' = Last("virtual_device_count", 0, NoInfo,
                    IntValue(Len(ctx.virtual_devs)), <<>>)
    /\ UNCHANGED <<threads, codec, pm_initialized, pm_descriptors, streams, ctx,
                   ports, terminateCalls>>

\* PortMidi::device_count.
device_count ==
    /\ ctx.state = "live"
    /\ last' = Last("device_count", 0, NoInfo,
                    IntValue(device_count_of(ctx)), <<>>)
    /\ UNCHANGED <<threads, codec, pm_initialized, pm_descriptors, streams,
                   ctx, ports,
                   terminateCalls>>

(***************************************************************************)
(* Ports (lib.rs, PmInputPort and PmOutputPort) and the free functions.    *)
(***************************************************************************)
MaxStreams == 1     \* stream handles the engine allocates

NoPort == [kind |-> "none", dev |-> -1, stream |-> 0]

FreePorts == {p \in 1 .. MaxPorts : ports[p].kind = "none"}

\* What the handle held by port p is to the engine.
HState(p) ==
    IF ports[p].stream = 0 THEN "null" ELSE streams[ports[p].stream]

\* Pm_OpenInput / Pm_OpenOutput: the engine opens a device of the session
\* that has the requested direction, and may refuse any request.
OpenOutcomes(id, kind) ==
    (IF /\ pm_initialized
        /\ get_device_info(pm_descriptors, id).tag = "Some"
        /\ IF kind = "in" THEN pm_descriptors[id + 1].input > 0
                          ELSE pm_descriptors[id + 1].output > 0
     THEN {0} ELSE {}) \cup {-9999}

\* A status of the engine that ffi::PmError does not list.
UnknownStatuses == {-9988}

\* Raw results of a stream call of port p: normal when the handle is open,
\* pmBadPtr for a null handle; a closed or terminated handle is a dangling
\* pointer and the engine may return anything.
StreamOutcomes(p, normal) ==
    IF HState(p) = "open" THEN normal \cup UnknownStatuses
    ELSE IF HState(p) = "null" THEN {-9995}
    ELSE normal \cup {-9995}

\* initialize()
initialize ==
    /\ ~pm_initialized
    /\ \E raw \in InitOutcomes :
         /\ pm_initialized' = (raw = 0)
         /\ last' = Last("initialize", 0, NoInfo, Status(raw),
                         <<Native("Pm_Initialize", 0, raw, "none")>>)
    /\ UNCHANGED <<threads, codec, pm_descriptors, streams, ctx, ports,
                   terminateCalls>>

\* terminate()
terminate ==
    /\ terminateCalls < MaxTerminate
    /\ \E raw \in TerminateOutcomes :
         last' = Last("terminate", 0, NoInfo, Status(raw),
                      <<Native("Pm_Terminate", Cardinality(OpenStreams), raw, "none")>>)
    /\ pm_initialized' = FALSE
    /\ streams' = ReleaseAll
    /\ terminateCalls' = terminateCalls + 1
    /\ UNCHANGED <<threads, codec, pm_descriptors, ctx, ports>>

\* PmInputPort::new / PmOutputPort::new
Port_new(kind) ==
    /\ FreePorts # {}
    /\ \E dev \in (0 .. Len(pm_descriptors) - 1) \cup {PM_NO_DEVICE} :
         LET p == CHOOSE q \in FreePorts : \A r \in FreePorts : q <= r
         IN /\ ports' = [ports EXCEPT ![p] = [kind |-> kind, dev |-> dev, stream |-> 0]]
            /\ last' = Last(IF kind = "in" THEN "PmInputPort::new"
                            ELSE "PmOutputPort::new", p, NoInfo, NoRet, <<>>)
    /\ UNCHANGED <<threads, codec, pm_initialized, pm_descriptors, streams,
                   ctx, terminateCalls>>

\* PmInputPort::open / PmOutputPort::open
Port_open(p) ==
    /\ ports[p].kind # "none"
    /\ Len(streams) < MaxStreams
    /\ \E raw \in OpenOutcomes(ports[p].dev, ports[p].kind) :
         /\ last' = Last("open", p, NoInfo, Status(raw),
                         <<Native(IF ports[p].kind = "in" THEN "Pm_OpenInput"
                                  ELSE "Pm_OpenOutput", ports[p].dev, raw, "none")>>)
         /\ IF raw = 0
            THEN /\ streams' = Append(streams, "open")
                 /\ ports' = [ports EXCEPT ![p].stream = Len(streams) + 1]
            ELSE UNCHANGED <<streams, ports>>
    /\ UNCHANGED <<threads, codec, pm_initialized, pm_descriptors, ctx,
                   terminateCalls>>

\* A port method that hands the port's handle to one native call and
\* returns the translated status: has_host_error, poll, abort.
StreamCall(p, op, fn, normal) ==
    /\ \E raw \in StreamOutcomes(p, normal) :
         last' = Last(op, p, NoInfo, Status(raw),
                      <<Native(fn, ports[p].stream, raw, HState(p))>>)
    /\ UNCHANGED <<threads, codec, pm_initialized, pm_descriptors, streams,
                   ctx, ports,
                   terminateCalls>>

\* PmInputPort::poll
poll(p) ==
    /\ ports[p].kind = "in"
    /\ StreamCall(p, "poll", "Pm_Poll", {0, 1, -9996})

\* An abort that gives the handle up as close does.
abort_releases(p) ==
    /\ ports[p].kind = "out"
    /\ \E raw \in StreamOutcomes(p, {0, -10000}) :
         /\ last' = Last("abort", p, NoInfo, Status(raw),
                         <<Native("Pm_Abort", ports[p].stream, raw, HState(p))>>)
         /\ IF HState(p) = "open" /\ raw = 0
            THEN streams' = [streams EXCEPT ![ports[p].stream] = "closed"]
            ELSE UNCHANGED streams
    /\ UNCHANGED <<threads, codec, pm_initialized, pm_descriptors, ctx,
                   ports, terminateCalls>>

\* PmOutputPort::abort
abort(p) ==
    /\ ports[p].kind = "out"
    /\ StreamCall(p, "abort", "Pm_Abort", {0, -10000})

\* PmInputPort::has_host_error / PmOutputPort::has_host_error: the engine's
\* i32 is returned as it is.
has_host_error(p) ==
    /\ ports[p].kind # "none"
    /\ \E raw \in {0, 1} :
         last' = Last("has_host_error", p, NoInfo, IntValue(raw),
                      <<Native("Pm_HasHostError", ports[p].stream, raw, HState(p))>>)
    /\ UNCHANGED <<threads, codec, pm_initialized, pm_descriptors, streams,
                   ctx, ports,
                   terminateCalls>>

\* PmInputPort::close / PmOutputPort::close: the handle stays in the port.
close(p) ==
    /\ ports[p].kind # "none"
    /\ \E raw \in StreamOutcomes(p, {0, -10000}) :
         /\ last' = Last("close", p, NoInfo, Status(raw),
                         <<Native("Pm_Close", ports[p].stream, raw, HState(p))>>)
         /\ IF HState(p) = "open" /\ raw = 0
            THEN streams' = [streams EXCEPT ![ports[p].stream] = "closed"]
            ELSE UNCHANGED streams
    /\ UNCHANGED <<threads, codec, pm_initialized, pm_descriptors, ctx,
                   ports, terminateCalls>>

\* PmEvent::wrap / PmEvent::unwrap
PmEvent_wrap(cevent) ==
    [message |-> PmMessage_wrap(cevent.message), timestamp |-> cevent.timestamp]

\* An unwrap that drops the caller's timestamp.
PmEvent_unwrap_notimestamp(ev) ==
    [message |-> PmMessage_unwrap(ev.message), timestamp |-> 0]

PmEvent_unwrap(ev) ==
    [message |-> PmMessage_unwrap(ev.message), timestamp |-> ev.timestamp]

\* What the engine delivers and what callers write.
WriteMessages == {[status |-> -112, data1 |-> 60, data2 |-> 100],
                  [status |-> -127, data1 |-> 36, data2 |-> 0]}

\* The events the engine delivers and the events callers write: each word
\* and each message goes with one timestamp.
ReadEvents ==
    {[message |-> 6569104, timestamp |-> 10], [message |-> 9361, timestamp |-> 5]}
WriteEvents ==
    {[message |-> [status |-> -112, data1 |-> 60, data2 |-> 100],
      timestamp |-> 10],
     [message |-> [status |-> -127, data1 |-> 36, data2 |-> 0],
      timestamp |-> 5]}

\* mem::transmute::<i16, PmError>(nbnote): the kind whose discriminant is
\* nbnote.  A value that is no discriminant of the enum is undefined
\* behaviour: the caller holds either a PmError that is none of the kinds or
\* one that it takes for some kind, which one is not specified.
transmute(nbnote) ==
    IF nbnote \in PmErrorCodes THEN {PmErrorOf(nbnote)}
    ELSE {"InvalidPmError", "UnspecifiedPmError"}

\* A match whose event arm also takes the count 0.
read_match_nonnegative(nbnote, pevent) ==
    IF nbnote >= 0 THEN {OkEvent(PmEvent_wrap(pevent))}
    ELSE {Err(e) : e \in transmute(nbnote)}

\* The match of read on the count of Pm_Read: the results it can return.
read_match(nbnote, pevent) ==
    IF nbnote = 0 THEN {Err("PmNoError")}
    ELSE IF nbnote > 0 THEN {OkEvent(PmEvent_wrap(pevent))}
    ELSE {Err(e) : e \in transmute(nbnote)}

\* PmInputPort::read
read(p) ==
    /\ ports[p].kind = "in"
    /\ \E nbnote \in StreamOutcomes(p, {0, 1, -9996, -10000}),
          delivered \in ReadEvents :
         LET pevent == IF nbnote > 0 THEN delivered
                       ELSE [message |-> 0, timestamp |-> 0]
         IN \E ret \in read_match(nbnote, pevent) :
              last' = Last("read", p, NoInfo, ret,
                           <<NativeBuffer("Pm_Read", ports[p].stream, nbnote,
                                          HState(p), pevent.message,
                                          pevent.timestamp, 1)>>)
    /\ UNCHANGED <<threads, codec, pm_initialized, pm_descriptors, streams,
                   ctx, ports,
                   terminateCalls>>

\* The timestamp the engine got in the write_event that port p made in the
\* step before this one, -1 when that step was no write_event of p.
PrevWrite(p) ==
    IF last.op = "write_event" /\ last.port = p
    THEN last.native[1].timestamp
    ELSE -1

\* PmOutputPort::write_event
write_event(p) ==
    /\ ports[p].kind = "out"
    /\ \E ev \in WriteEvents, raw \in StreamOutcomes(p, {0, -9994}) :
         LET cevent == PmEvent_unwrap(ev)
         IN last' = Last("write_event", p,
                         [message |-> ev.message, timestamp |-> ev.timestamp,
                          prev |-> PrevWrite(p)],
                         Status(raw),
                         <<NativeBuffer("Pm_Write", ports[p].stream, raw,
                                        HState(p), cevent.message,
                                        cevent.timestamp, 1)>>)
    /\ UNCHANGED <<threads, codec, pm_initialized, pm_descriptors, streams,
                   ctx, ports,
                   terminateCalls>>

\* PmOutputPort::write_message
write_message(p) ==
    /\ ports[p].kind = "out"
    /\ \E m \in WriteMessages, raw \in StreamOutcomes(p, {0, -9994}) :
         last' = Last("write_message", p,
                      [message |-> m], Status(raw),
                      <<NativeWrite("Pm_WriteShort", ports[p].stream, raw, HState(p),
                                    PmMessage_unwrap(m), 0)>>)
    /\ UNCHANGED <<threads, codec, pm_initialized, pm_descriptors, streams,
                   ctx, ports,
                   terminateCalls>>

(***************************************************************************)
(* Ports opened through the registry (context.rs).                         *)
(***************************************************************************)
\* InputPort::new / OutputPort::new: the native open of the device; the port
\* exists only when the engine accepts.
\* before: the native calls the caller made on the way to the constructor.
\* The constructor tests the direction flag of the descriptor first and
\* makes the native open only when it matches the kind of the port.
Port_new_open(op, kind, device, before) ==
    /\ FreePorts # {}
    /\ Len(streams) < MaxStreams
    /\ \E raw \in OpenOutcomes(device.id, kind) :
         LET p == CHOOSE q \in FreePorts : \A r \in FreePorts : q <= r
             call == before \o
                     <<Native(IF kind = "in" THEN "Pm_OpenInput" ELSE "Pm_OpenOutput",
                              device.id, raw, "none")>>
         IN IF kind = "in" /\ ~is_input(device)
            THEN /\ last' = Last(op, 0, device, Err("NotAnInputDevice"), before)
                 /\ UNCHANGED <<streams, ports>>
            ELSE IF kind = "out" /\ ~is_output(device)
            THEN /\ last' = Last(op, 0, device, Err("NotAnOutputDevice"), before)
                 /\ UNCHANGED <<streams, ports>>
            ELSE IF ResultFrom(raw).tag = "Ok"
            THEN /\ streams' = Append(streams, "open")
                 /\ ports' = [ports EXCEPT ![p] = [kind |-> kind, dev |-> device.id,
                                                   stream |-> Len(streams) + 1]]
                 /\ last' = Last(op, p, device, OkUnit, call)
            ELSE /\ last' = Last(op, 0, device, ResultFrom(raw), call)
                 /\ UNCHANGED <<streams, ports>>

\* PortMidi::input_port
input_port ==
    /\ ctx.state = "live"
    /\ \E device \in KnownDevices :
         IF is_input(device)
         THEN Port_new_open("input_port", "in", device, <<>>)
         ELSE /\ last' = Last("input_port", 0, device, Err("NotAnInputDevice"), <<>>)
              /\ UNCHANGED <<streams, ports>>
    /\ UNCHANGED <<threads, codec, pm_initialized, pm_descriptors, ctx,
                   terminateCalls>>

\* The head of default_input_port / default_output_port: the default id,
\* and_then the descriptor of it, and ? returns the first error; else the
\* constructor of the port is called on the descriptor.
default_port(op, kind, idcall) ==
    /\ ctx.state = "live"
    /\ \E raw \in DefaultOutcomes(IF kind = "in" THEN "input" ELSE "output") :
         LET first == <<Native(idcall, 0, raw, "none")>>
             lookup == first \o <<Native("Pm_GetDeviceInfo", raw, 0, "none")>>
         IN  IF default_device_id(raw).tag = "Err"
             THEN /\ last' = Last(op, 0, NoInfo, default_device_id(raw), first)
                  /\ UNCHANGED <<streams, ports>>
             ELSE IF DeviceInfo_new(pm_descriptors, raw).tag = "Err"
             THEN /\ last' = Last(op, 0, NoInfo,
                                  DeviceInfo_new(pm_descriptors, raw), lookup)
                  /\ UNCHANGED <<streams, ports>>
             ELSE Port_new_open(op, kind,
                                DeviceInfo_new(pm_descriptors, raw).info, lookup)
    /\ UNCHANGED <<threads, codec, pm_initialized, pm_descriptors, ctx,
                   terminateCalls>>

\* PortMidi::default_input_port
default_input_port ==
    default_port("default_input_port", "in", "Pm_GetDefaultInputDeviceID")

\* PortMidi::default_output_port
default_output_port ==
    default_port("default_output_port", "out", "Pm_GetDefaultOutputDeviceID")

\* PortMidi::output_port
output_port ==
    /\ ctx.state = "live"
    /\ \E device \in KnownDevices :
         IF is_output(device)
         THEN Port_new_open("output_port", "out", device, <<>>)
         ELSE /\ last' = Last("output_port", 0, device, Err("NotAnOutputDevice"), <<>>)
              /\ UNCHANGED <<streams, ports>>
    /\ UNCHANGED <<threads, codec, pm_initialized, pm_descriptors, ctx,
                   terminateCalls>>

(***************************************************************************)
(* Specifications.                                                         *)
(***************************************************************************)
(***************************************************************************)
(* One registry shared by several threads (context.rs): each thread calls  *)
(* create_virtual_output once, the owner drops the registry when no call   *)
(* is in flight.  A step is what a thread does between two points where    *)
(* another thread can run: a native call, the locking of the Mutex, the    *)
(* statement that runs under the MutexGuard.                               *)
(***************************************************************************)
\* The thread enters create_virtual_output: CString::new(..).unwrap(), then
\* it is inside Pm_CreateVirtualOutput.
T_begin(t) ==
    /\ ctx.state = "live"
    /\ threads.drop = "none"
    /\ threads.pc[t] = "idle"
    /\ Len(pm_descriptors) < MaxPhys + MaxVirt
    /\ \E nul \in BOOLEAN :
         threads' = [threads EXCEPT
                        !.pc[t] = IF nul THEN "panicked" ELSE "creating"]
    /\ UNCHANGED <<codec, pm_initialized, pm_descriptors, streams, ctx, ports,
                   terminateCalls, last>>

\* Pm_CreateVirtualOutput returns and its result is matched.
T_created(t) ==
    /\ threads.pc[t] = "creating"
    /\ \E raw \in CreateOutcomes :
         LET res == PmError_try_from(raw)
         IN  /\ pm_descriptors' = IF raw >= 0
                                  THEN Append(pm_descriptors, VirtOut)
                                  ELSE pm_descriptors
             /\ threads' = [threads EXCEPT
                    !.pc[t] = IF create_match(res) \in {"None", "Panic"}
                              THEN "panicked"
                              ELSE IF create_match(res) = "Err" THEN "returned"
                              ELSE "push",
                    !.id[t] = IF create_match(res) = "Some" THEN res.id ELSE -1]
    /\ UNCHANGED <<codec, pm_initialized, streams, ctx, ports, terminateCalls,
                   last>>

\* A thread that reads the Vec without taking the Mutex.
T_lock_unguarded(t) ==
    /\ threads.pc[t] = "push"
    /\ threads' = [threads EXCEPT !.pc[t] = "locked",
                                  !.snap[t] = ctx.virtual_devs]
    /\ UNCHANGED <<codec, pm_initialized, pm_descriptors, streams, ctx, ports,
                   terminateCalls, last>>

\* self.virtual_devs.lock().unwrap(): the thread waits for the Mutex, takes
\* it and has the Vec before it.
T_lock(t) ==
    /\ threads.pc[t] = "push"
    /\ threads.lock = 0
    /\ threads' = [threads EXCEPT !.pc[t] = "locked", !.lock = t,
                                  !.snap[t] = ctx.virtual_devs]
    /\ UNCHANGED <<codec, pm_initialized, pm_descriptors, streams, ctx, ports,
                   terminateCalls, last>>

\* A push whose MutexGuard lives until the function returns.
T_push_keeps_guard(t) ==
    /\ threads.pc[t] = "locked"
    /\ ctx' = [ctx EXCEPT !.virtual_devs = Vec_push(threads.snap[t], threads.id[t])]
    /\ threads' = [threads EXCEPT !.pc[t] = "lookup"]
    /\ UNCHANGED <<codec, pm_initialized, pm_descriptors, streams, ports,
                   terminateCalls, last>>

\* .push(id): the id is written behind the entries the thread found; the
\* MutexGuard is a temporary of the statement and is dropped at its end.
\* The thread is then inside the lookup of DeviceInfo::new(id).
T_push(t) ==
    /\ threads.pc[t] = "locked"
    /\ ctx' = [ctx EXCEPT !.virtual_devs = Vec_push(threads.snap[t], threads.id[t])]
    /\ threads' = [threads EXCEPT !.pc[t] = "lookup",
                                  !.lock = IF @ = t THEN 0 ELSE @]
    /\ UNCHANGED <<codec, pm_initialized, pm_descriptors, streams, ports,
                   terminateCalls, last>>

\* DeviceInfo::new(id) returns and create_virtual_output returns its result.
T_return(t) ==
    /\ threads.pc[t] = "lookup"
    /\ threads' = [threads EXCEPT !.pc[t] = "returned"]
    /\ last' = Last("create_virtual_output", 0, NoInfo,
                    DeviceInfo_new(pm_descriptors, threads.id[t]),
                    <<Native("Pm_GetDeviceInfo", threads.id[t], 0, "none")>>)
    /\ UNCHANGED <<codec, pm_initialized, pm_descriptors, streams, ctx, ports,
                   terminateCalls>>

\* No call of create_virtual_output is in flight.
Quiescent ==
    \A t \in 1 .. MaxThreads : threads.pc[t] \in {"idle", "returned", "panicked"}

\* The last reference goes away and drop starts: it waits for the Mutex for
\* the test of is_empty.
D_begin ==
    /\ ctx.state = "live"
    /\ threads.drop = "none"
    /\ Quiescent
    /\ ctx' = [ctx EXCEPT !.state = "dropped"]
    /\ threads' = [threads EXCEPT !.drop = "test_wait"]
    /\ UNCHANGED <<codec, pm_initialized, pm_descriptors, streams, ports,
                   terminateCalls, last>>

\* lock().unwrap() in the condition of the if.  -1 is the teardown as holder.
D_test_lock ==
    /\ threads.drop = "test_wait"
    /\ threads.lock = 0
    /\ threads' = [threads EXCEPT !.drop = "test", !.lock = -1]
    /\ UNCHANGED <<codec, pm_initialized, pm_descriptors, streams, ctx, ports,
                   terminateCalls, last>>

\* !is_empty(): the guard is a temporary of the condition and is dropped
\* before the block of the if is entered.
D_test ==
    /\ threads.drop = "test"
    /\ threads' = [threads EXCEPT
                      !.lock = 0,
                      !.drop = IF ctx.virtual_devs = <<>> THEN "terminate"
                               ELSE "iter_wait"]
    /\ UNCHANGED <<codec, pm_initialized, pm_descriptors, streams, ctx, ports,
                   terminateCalls, last>>

\* lock().unwrap() in the head of the for: the guard lives as long as the loop.
D_iter_lock ==
    /\ threads.drop = "iter_wait"
    /\ threads.lock = 0
    /\ threads' = [threads EXCEPT !.drop = "loop", !.lock = -1, !.next = 1]
    /\ UNCHANGED <<codec, pm_initialized, pm_descriptors, streams, ctx, ports,
                   terminateCalls, last>>

\* One turn of the loop: Pm_DeleteVirtualDevice(*id), and unwrap() panics on
\* a failure; the unwinding drops the guard.
D_delete ==
    /\ threads.drop = "loop"
    /\ threads.next <= Len(ctx.virtual_devs)
    /\ \E res \in DeleteOutcomes :
         /\ threads' = IF ResultFrom(res).tag = "Err"
                       THEN [threads EXCEPT !.drop = "panicked", !.lock = 0]
                       ELSE [threads EXCEPT !.next = @ + 1]
         /\ last' = Last("drop", 0, NoInfo,
                         IF ResultFrom(res).tag = "Err" THEN Panic ELSE NoRet,
                         <<Native("Pm_DeleteVirtualDevice",
                                  ctx.virtual_devs[threads.next], res, "none")>>)
    /\ UNCHANGED <<codec, pm_initialized, pm_descriptors, streams, ctx, ports,
                   terminateCalls>>

\* The iterator is exhausted: the loop ends and its guard is dropped.
D_iter_end ==
    /\ threads.drop = "loop"
    /\ threads.next > Len(ctx.virtual_devs)
    /\ threads' = [threads EXCEPT !.drop = "terminate", !.lock = 0]
    /\ UNCHANGED <<codec, pm_initialized, pm_descriptors, streams, ctx, ports,
                   terminateCalls, last>>

\* Result::from(Pm_Terminate()).map_err(..).unwrap().
D_terminate ==
    /\ threads.drop = "terminate"
    /\ \E term \in TerminateOutcomes :
         /\ threads' = [threads EXCEPT
                           !.terminated = TRUE,
                           !.drop = IF ResultFrom(term).tag = "Err"
                                    THEN "panicked" ELSE "done"]
         /\ last' = Last("drop", 0, NoInfo,
                         IF ResultFrom(term).tag = "Err" THEN Panic ELSE OkUnit,
                         <<Native("Pm_Terminate", Cardinality(OpenStreams),
                                  term, "none")>>)
    /\ pm_initialized' = FALSE
    /\ streams' = ReleaseAll
    /\ terminateCalls' = terminateCalls + 1
    /\ UNCHANGED <<codec, pm_descriptors, ctx, ports>>

Init ==
    /\ codec = CodecIdle
    /\ pm_initialized = FALSE
    /\ pm_descriptors \in DeviceTables
    /\ streams = <<>>
    /\ ctx = NoCtx
    /\ ports = [p \in 1 .. MaxPorts |-> NoPort]
    /\ terminateCalls = 0
    /\ threads = NoThreads
    /\ last = Last("init", 0, NoInfo, NoRet, <<>>)

Next ==
    \/ PortMidi_new
    \/ create_virtual_output
    \/ Drop
    \/ device_count
    \/ virtual_device_count
    \/ default_input_device_id
    \/ default_output_device_id
    \/ devices
    \/ input_port
    \/ output_port
    \/ default_input_port
    \/ default_output_port

Spec == Init /\ [][Next]_vars

\* The old stream API of lib.rs on its own.
PortsNext ==
    \/ initialize
    \/ terminate
    \/ \E kind \in {"in", "out"} : Port_new(kind)
    \/ \E p \in 1 .. MaxPorts : Port_open(p)
    \/ \E p \in 1 .. MaxPorts : has_host_error(p)
    \/ \E p \in 1 .. MaxPorts : read(p)
    \/ \E p \in 1 .. MaxPorts : poll(p)
    \/ \E p \in 1 .. MaxPorts : write_event(p)
    \/ \E p \in 1 .. MaxPorts : write_message(p)
    \/ \E p \in 1 .. MaxPorts : abort(p)
    \/ \E p \in 1 .. MaxPorts : close(p)

\* A machine with one input and one output device, as the test of lib.rs
\* expects.
PortsInit ==
    /\ codec = CodecIdle
    /\ pm_initialized = FALSE
    /\ pm_descriptors = <<InDev, OutDev>>
    /\ streams = <<>>
    /\ ctx = NoCtx
    /\ ports = [p \in 1 .. MaxPorts |-> NoPort]
    /\ terminateCalls = 0
    /\ threads = NoThreads
    /\ last = Last("init", 0, NoInfo, NoRet, <<>>)

SpecPorts == PortsInit /\ [][PortsNext]_vars

ThreadsInit ==
    /\ codec = CodecIdle
    /\ pm_initialized = FALSE
    /\ pm_descriptors = <<InDev, OutDev>>
    /\ streams = <<>>
    /\ ctx = NoCtx
    /\ ports = [p \in 1 .. MaxPorts |-> NoPort]
    /\ terminateCalls = 0
    /\ threads = NoThreads
    /\ last = Last("init", 0, NoInfo, NoRet, <<>>)

ThreadsNext ==
    \/ PortMidi_new
    \/ \E t \in 1 .. MaxThreads : T_begin(t)
    \/ \E t \in 1 .. MaxThreads : T_created(t)
    \/ \E t \in 1 .. MaxThreads : T_lock(t)
    \/ \E t \in 1 .. MaxThreads : T_push(t)
    \/ \E t \in 1 .. MaxThreads : T_return(t)
    \/ D_begin
    \/ D_test_lock
    \/ D_test
    \/ D_iter_lock
    \/ D_delete
    \/ D_iter_end
    \/ D_terminate

SpecThreads == ThreadsInit /\ [][ThreadsNext]_vars

\* Every thread that can take a step takes one in the end.
FairSpecThreads == SpecThreads /\ WF_vars(ThreadsNext)

\* The codec on its own: every drawn message is packed and unpacked, every
\* drawn word is unpacked and packed.
CodecInit ==
    /\ codec \in {[CodecIdle EXCEPT !.phase = "msg", !.m = m] :
                    m \in CodecMessages}
               \cup {[CodecIdle EXCEPT !.phase = "word", !.w = w] :
                       w \in CodecWords}
    /\ pm_initialized = FALSE
    /\ pm_descriptors = <<>>
    /\ streams = <<>>
    /\ ctx = NoCtx
    /\ ports = [p \in 1 .. MaxPorts |-> NoPort]
    /\ terminateCalls = 0
    /\ threads = NoThreads
    /\ last = Last("init", 0, NoInfo, NoRet, <<>>)

CodecNext ==
    \/ CodecEncode /\ UNCHANGED <<threads, pm_initialized, pm_descriptors, streams, ctx,
                                   ports, terminateCalls, last>>
    \/ CodecDecode /\ UNCHANGED <<threads, pm_initialized, pm_descriptors, streams, ctx,
                                   ports, terminateCalls, last>>
    \/ CodecWordDecode /\ UNCHANGED <<threads, pm_initialized, pm_descriptors,
                                       streams, ctx, ports, terminateCalls, last>>
    \/ CodecWordEncode /\ UNCHANGED <<threads, pm_initialized, pm_descriptors,
                                       streams, ctx, ports, terminateCalls, last>>

SpecCodec == CodecInit /\ [][CodecNext]_vars

(***************************************************************************)
(* Properties.                                                             *)
(***************************************************************************)
NativeCalls(fn) == {i \in DOMAIN last.native : last.native[i].fn = fn}

\* C1: decoding the packed word of a message gives the message back, for
\* every i8 value of each field.
CodecRoundTrip ==
    codec.phase = "unpacked" => codec.out = codec.m

CodecRoundTripWitness ==
    /\ codec.phase = "unpacked"
    /\ codec.m = [status |-> -112, data1 |-> -1, data2 |-> 100]
    /\ codec.out = codec.m

\* C2: the packed word holds status in byte 0, data1 in byte 1, data2 in
\* byte 2 and nothing in byte 3, also for bytes 0x80..0xFF (negative i8).
EncodeLayout ==
    codec.phase \in {"packed", "unpacked"} =>
        /\ WordByte(codec.w, 0) = ByteOf(codec.m.status)
        /\ WordByte(codec.w, 1) = ByteOf(codec.m.data1)
        /\ WordByte(codec.w, 2) = ByteOf(codec.m.data2)
        /\ WordByte(codec.w, 3) = 0
        /\ codec.w \in 0 .. 16777215

EncodeLayoutWitness ==
    /\ codec.phase = "packed"
    /\ codec.m = [status |-> -112, data1 |-> 60, data2 |-> 100]
    /\ codec.w = 6569104

\* C3: the set holds one entry per successful create_virtual_output, all
\* distinct, and teardown issues exactly one delete call per entry.
VirtualBookkeeping ==
    /\ Len(ctx.virtual_devs) = ctx.created
    /\ \A i, j \in DOMAIN ctx.virtual_devs :
          ctx.virtual_devs[i] = ctx.virtual_devs[j] => i = j
    /\ last.op = "drop" =>
          /\ Cardinality(NativeCalls("Pm_DeleteVirtualDevice")) = ctx.created
          /\ \A i, j \in NativeCalls("Pm_DeleteVirtualDevice") :
                last.native[i].arg = last.native[j].arg => i = j
          /\ \A i \in NativeCalls("Pm_DeleteVirtualDevice") :
                \E k \in DOMAIN ctx.virtual_devs :
                   ctx.virtual_devs[k] = last.native[i].arg

\* C4: teardown issues a delete call for every tracked id, also after a
\* delete that failed.
TeardownAttemptsEvery ==
    last.op = "drop" =>
        \A k \in DOMAIN ctx.virtual_devs :
            \E i \in NativeCalls("Pm_DeleteVirtualDevice") :
                last.native[i].arg = ctx.virtual_devs[k]

\* C5: teardown completes normally whatever the engine's delete and
\* terminate calls return.
TeardownInfallible ==
    last.op = "drop" => last.ret.tag # "Panic"

\* C6: teardown calls Pm_Terminate exactly once, after the delete calls of
\* all tracked ids, and it is the session's only terminate.
TerminateOnceAfterDeletes ==
    last.op = "drop" =>
        /\ Cardinality(NativeCalls("Pm_Terminate")) = 1
        /\ Len(last.native) = Len(ctx.virtual_devs) + 1
        /\ last.native[Len(last.native)].fn = "Pm_Terminate"
        /\ terminateCalls = 1

\* C7: input_port on a descriptor without input fails with NotAnInputDevice,
\* output_port on one without output with NotAnOutputDevice, and neither
\* makes a native call.
DirectionGuard ==
    /\ (last.op = "input_port" /\ last.arg.input = 0) =>
          (last.ret = Err("NotAnInputDevice") /\ last.native = <<>>)
    /\ (last.op = "output_port" /\ last.arg.output = 0) =>
          (last.ret = Err("NotAnOutputDevice") /\ last.native = <<>>)

DirectionGuardWitness ==
    /\ last.op = "input_port"
    /\ last.arg.input = 0
    /\ last.arg.output = 1
    /\ last.ret = Err("NotAnInputDevice")
    /\ Len(streams) = 0

\* C8: no native call is made with a handle that close() has released.
ClosedPortUnused ==
    \A i \in DOMAIN last.native : last.native[i].hstate # "closed"

\* C9: Pm_Terminate never runs while a stream of the session is open.
TerminateAfterPortsClosed ==
    \A i \in NativeCalls("Pm_Terminate") : last.native[i].arg = 0

\* C10: when the engine's creation call returns a new id (0 included), that
\* id is appended to the set and its descriptor is returned.
CreateSuccessPath ==
    \A i \in NativeCalls("Pm_CreateVirtualOutput") :
        last.native[i].res >= 0 =>
            /\ last.ret.tag = "Ok"
            /\ last.ret.info.id = last.native[i].res
            /\ ctx.virtual_devs # <<>>
            /\ ctx.virtual_devs[Len(ctx.virtual_devs)] = last.native[i].res

\* C11: when the engine's creation call returns a native error, the set is
\* left as it was; PmInvalidDeviceId is a panic, any other error kind is
\* returned to the caller as that kind.
CreateErrorPath ==
    [][\A i \in {j \in DOMAIN last'.native :
                    last'.native[j].fn = "Pm_CreateVirtualOutput"} :
          last'.native[i].res < 0 =>
             /\ ctx'.virtual_devs = ctx.virtual_devs
             /\ IF last'.native[i].res = PmErrorCode["PmInvalidDeviceId"]
                THEN last'.ret = Panic
                ELSE last'.ret = Err(PmErrorOf(last'.native[i].res))]_vars

CreateErrorPathWitness ==
    /\ last.op = "create_virtual_output"
    /\ last.ret = Err("PmInsufficientMemory")
    /\ Len(ctx.virtual_devs) = 1

\* C12: within one session the count of the registry never changes, and
\* every call of device_count() returns it, whatever happened since new().
DeviceCountFixed ==
    [][/\ (ctx.state = "live" /\ ctx'.state = "live")
            => ctx'.device_count = ctx.device_count
       /\ last'.op = "device_count"
            => last'.ret = IntValue(ctx.device_count)]_vars

DeviceCountFixedWitness ==
    /\ last.op = "device_count"
    /\ Len(ctx.virtual_devs) >= 1
    /\ last.ret.value < Len(pm_descriptors)

\* C13: every id handed out, the ids kept in the set of virtual devices and
\* the id of a descriptor returned by create_virtual_output included, lies
\* in [0, device_count()).
IdsWithinDeviceCount ==
    /\ \A i \in DOMAIN ctx.virtual_devs :
          /\ ctx.virtual_devs[i] >= 0
          /\ ctx.virtual_devs[i] < device_count_of(ctx)
    /\ (last.op = "create_virtual_output" /\ last.ret.tag = "Ok")
          => /\ last.ret.info.id >= 0
             /\ last.ret.info.id < device_count_of(ctx)

\* C14: when the engine answers the sentinel for the default input (output)
\* device the call fails with NoDefaultDevice and no other kind; any other
\* answer is returned as the id.
DefaultIdOrNoDefault ==
    last.op \in {"default_input_device_id", "default_output_device_id"}
       => /\ Len(last.native) = 1
          /\ last.native[1].fn =
                (IF last.op = "default_input_device_id"
                 THEN "Pm_GetDefaultInputDeviceID"
                 ELSE "Pm_GetDefaultOutputDeviceID")
          /\ IF last.native[1].res = PM_NO_DEVICE
             THEN last.ret = Err("NoDefaultDevice")
             ELSE last.ret = OkId(last.native[1].res)

DefaultIdOrNoDefaultWitness ==
    /\ last.op = "default_input_device_id"
    /\ last.native[1].res = PM_NO_DEVICE
    /\ last.ret = Err("NoDefaultDevice")
    /\ \E id \in DefaultOutcomes("output") : id = 0

\* C15: devices() looks the ids up in ascending order from 0.  When every
\* lookup succeeds it returns the descriptors of 0 .. device_count()-1 in
\* that order; when a lookup fails it stops there, returns the failure with
\* no partial list, and looks up no later id.
DevicesAllOrFirstFailure ==
    last.op = "devices"
       => LET n == Len(last.native)
              failed == {i \in 1 .. n : last.native[i].res = 0}
          IN  /\ n <= ctx.device_count
              /\ \A i \in 1 .. n : /\ last.native[i].fn = "Pm_GetDeviceInfo"
                                    /\ last.native[i].arg = i - 1
              /\ failed \subseteq {n}
              /\ IF failed = {}
                 THEN /\ n = ctx.device_count
                      /\ last.ret.tag = "Ok"
                      /\ Len(last.ret.list) = ctx.device_count
                      /\ \A i \in 1 .. n :
                            last.ret.list[i] =
                               get_device_info(pm_descriptors, i - 1).info
                 ELSE /\ last.ret.tag = "Err"
                      /\ last.ret.err \in PmErrorNames
                      /\ last.ret.list = <<>>

DevicesAllOrFirstFailureWitness ==
    /\ last.op = "devices"
    /\ ctx.device_count = 2
    /\ Len(last.native) = 1
    /\ last.ret.tag = "Err"

\* C16: new() returns the native error and builds no registry when the
\* engine fails to initialise; it returns Invalid and builds no registry
\* when the engine's count is negative; otherwise the registry exists with
\* an empty set of virtual devices and that count.
NewOutcome ==
    last.op = "new"
       => /\ last.native[1].fn = "Pm_Initialize"
          /\ IF last.native[1].res # PmErrorCode["PmNoError"]
             THEN /\ Len(last.native) = 1
                  /\ last.ret = Err(PmErrorOf(last.native[1].res))
                  /\ ctx.state = "none"
             ELSE /\ Len(last.native) = 2
                  /\ last.native[2].fn = "Pm_CountDevices"
                  /\ IF last.native[2].res < 0
                     THEN /\ last.ret = Err("Invalid")
                          /\ ctx.state = "none"
                     ELSE /\ last.ret = OkUnit
                          /\ ctx.state = "live"
                          /\ ctx.virtual_devs = <<>>
                          /\ ctx.device_count = last.native[2].res

NewOutcomeWitness ==
    /\ last.op = "new"
    /\ Len(last.native) = 2
    /\ last.native[2].res < 0
    /\ last.ret = Err("Invalid")

\* C17: one read on an open input port asks the engine for one event.  The
\* count 0 gives the empty result that carries no error, a positive count
\* gives the event the engine wrote, its message decoded by the codec and
\* its timestamp as delivered, and a negative count that is a code of the
\* taxonomy gives the error kind of that code.
ReadOne ==
    (last.op = "read" /\ last.native[1].hstate = "open")
       => LET call == last.native[1]
          IN  /\ Len(last.native) = 1
              /\ call.fn = "Pm_Read"
              /\ call.length = 1
              /\ call.res = 0 => last.ret = Err("PmNoError")
              /\ call.res > 0 =>
                    /\ last.ret.tag = "Ok"
                    /\ last.ret.event.timestamp = call.timestamp
                    /\ last.ret.event.message = PmMessage_wrap(call.word)
                    /\ ByteOf(last.ret.event.message.status) = call.word % 256
                    /\ ByteOf(last.ret.event.message.data1)
                          = (call.word \div 256) % 256
                    /\ ByteOf(last.ret.event.message.data2)
                          = (call.word \div 65536) % 256
              /\ (call.res < 0 /\ call.res \in PmErrorCodes) =>
                    /\ last.ret.tag = "Err"
                    /\ PmErrorCode[last.ret.err] = call.res

ReadOneWitness ==
    /\ last.op = "read"
    /\ last.native[1].hstate = "open"
    /\ last.native[1].res = 1
    /\ last.native[1].word = 6569104
    /\ last.ret.event.message = [status |-> -112, data1 |-> 60, data2 |-> 100]
    /\ last.ret.event.timestamp = 10

\* C18: every operation that calls the engine turns the raw status into the
\* one kind of the taxonomy with that code, and panics on a status that is
\* no code of the taxonomy; nothing outside the taxonomy is returned.
StatusInTaxonomy ==
    last.op \in {"initialize", "terminate", "open", "poll", "read",
                 "write_event", "write_message", "abort", "close"}
       => LET call == last.native[1]
          IN  IF last.op = "read" /\ call.res > 0
              THEN last.ret.tag = "Ok"
              ELSE IF call.res \in PmErrorCodes
              THEN /\ last.ret.tag \in {"Status", "Err"}
                   /\ last.ret.err = PmErrorOf(call.res)
              ELSE last.ret = Panic

\* C19: every write on an open output port is one engine call on the port's
\* handle, made in the step of the write whatever was written before it, a
\* smaller timestamp after a larger one included; the word passed is the
\* encoding of the message; write_event passes the caller's timestamp and
\* write_message passes the timestamp 0.
WritesForwarded ==
    (/\ last.op \in {"write_event", "write_message"}
     /\ last.native[1].hstate = "open")
       => LET call == last.native[1]
          IN  /\ Len(last.native) = 1
              /\ call.arg = ports[last.port].stream
              /\ last.ret = Status(call.res)
              /\ call.word = PmMessage_unwrap(last.arg.message)
              /\ call.word = ByteOf(last.arg.message.status)
                              + 256 * ByteOf(last.arg.message.data1)
                              + 65536 * ByteOf(last.arg.message.data2)
              /\ IF last.op = "write_event"
                 THEN /\ call.fn = "Pm_Write"
                      /\ call.length = 1
                      /\ call.timestamp = last.arg.timestamp
                 ELSE /\ call.fn = "Pm_WriteShort"
                      /\ call.timestamp = 0

WritesForwardedWitness ==
    /\ last.op = "write_event"
    /\ last.native[1].hstate = "open"
    /\ last.native[1].res = 0
    /\ last.arg.prev = 10
    /\ last.arg.timestamp = 5
    /\ last.native[1].timestamp = 5

\* C20: abort leaves the port and its handle as they were: an open handle
\* is still open after it, and a close that follows is made on the handle
\* the abort was made on.
AbortKeepsOpen ==
    [][/\ last'.op = "abort"
            => /\ ports' = ports
               /\ streams' = streams
               /\ last'.native[1].fn = "Pm_Abort"
               /\ last'.native[1].arg = ports[last'.port].stream
               /\ last'.native[1].hstate = "open"
                    => streams'[ports'[last'.port].stream] = "open"
       /\ (last.op = "abort" /\ last'.op = "close" /\ last'.port = last.port)
            => /\ last'.native[1].fn = "Pm_Close"
               /\ last'.native[1].arg = last.native[1].arg
               /\ last'.native[1].hstate = last.native[1].hstate]_vars

AbortKeepsOpenWitness ==
    /\ last.op = "abort"
    /\ last.native[1].hstate = "open"
    /\ last.native[1].res = 0
    /\ HState(last.port) = "open"

\* C21: whatever the interleaving of the threads, once no call is in flight
\* the set holds the ids the engine gave to the calls that got one, each
\* exactly once, and nothing else.
NoLostAppend ==
    (Quiescent /\ ctx.state = "live")
       => /\ \A t \in 1 .. MaxThreads :
                threads.id[t] >= 0
                   => Cardinality({i \in DOMAIN ctx.virtual_devs :
                                      ctx.virtual_devs[i] = threads.id[t]}) = 1
          /\ Len(ctx.virtual_devs)
                = Cardinality({t \in 1 .. MaxThreads : threads.id[t] >= 0})

NoLostAppendWitness ==
    /\ Quiescent
    /\ ctx.state = "live"
    /\ Len(ctx.virtual_devs) = 2
    /\ threads.id[1] > threads.id[2]
    /\ ctx.virtual_devs = <<threads.id[1], threads.id[2]>>

\* C22: while the registry lives, every step leaves the entries of the set
\* in place and at most adds entries behind them, so the value of
\* virtual_device_count() never goes down; the teardown starts on the set
\* with every id that was appended.
AppendOnly ==
    [][/\ (ctx.state = "live" /\ ctx'.state \in {"live", "dropped"})
            => /\ Len(ctx'.virtual_devs) >= Len(ctx.virtual_devs)
               /\ SubSeq(ctx'.virtual_devs, 1, Len(ctx.virtual_devs))
                     = ctx.virtual_devs
       /\ (ctx.state = "live" /\ ctx'.state = "dropped")
            => ctx'.virtual_devs = ctx.virtual_devs
       /\ last'.op = "virtual_device_count"
            => last'.ret = IntValue(Len(ctx.virtual_devs))]_vars

AppendOnlyWitness ==
    /\ last.op = "virtual_device_count"
    /\ last.ret.value = 2
    /\ Len(ctx.virtual_devs) = 2
    /\ ctx.virtual_devs[1] # ctx.virtual_devs[2]

TeardownReachesTerminate ==
    (threads.drop # "none") ~> threads.terminated

\* C25: an engine session that new() started is ended by one Pm_Terminate on
\* every way out: whenever no registry lives, because new() failed or
\* because the registry was dropped, the engine is not initialized.
InitMatchedByTerminate ==
    /\ ctx.state \in {"none", "dropped"} => ~pm_initialized
    /\ (last.op = "new" /\ last.ret = Err("Invalid"))
          => NativeCalls("Pm_Terminate") # {}

UnopenedPortSilent ==
    last.op \in {"read", "poll", "write_event", "write_message", "abort",
                 "close"} =>
        \A i \in DOMAIN last.native : last.native[i].hstate # "null"

\* C28: for every 32-bit word w, packing the message unpacked from w gives
\* w & 0x00FFFFFF, the low 24 bits of w; it gives w itself when the high
\* byte of w is zero.
WordRoundTrip ==
    codec.phase = "reencoded" =>
        /\ codec.re = codec.w % 16777216
        /\ codec.re = BitAnd(codec.w, 16777215)
        /\ codec.w \in 0 .. 16777215 => codec.re = codec.w

WordRoundTripWitness ==
    /\ codec.phase = "reencoded"
    /\ codec.w = Word(-128, 144, 60, 144)
    /\ codec.out = [status |-> -112, data1 |-> 60, data2 |-> -112]
    /\ codec.re = Word(0, 144, 60, 144)

====
